---- MODULE Spec2Model ----
(***************************************************************************)
(* A model of the wmem string buffer (epan/wmem/wmem_strbuf.c): a growable, *)
(* length-tracked, optionally capacity-bounded text buffer.                 *)
(*                                                                          *)
(* Memory is modelled as a sequence of bytes whose length is the allocated  *)
(* size of the region; C index i is element i + 1.  A byte is a number in   *)
(* 0..255, 0 being the terminator.  gsize arithmetic is done modulo         *)
(* 2^SizeBits.  A write past the end of the region is undefined behaviour:  *)
(* the model records it (oob) and lets the call either crash the process or *)
(* go on with the fields the code computes.  Fresh memory handed out by the *)
(* allocator holds fillByte, which is chosen once, nondeterministically.    *)
(***************************************************************************)
EXTENDS Integers, Sequences, FiniteSets, TLC

\* ------------------------------------------------------------------ bounds

\* Width in bits of gsize in the model.
SizeBits == 8

\* Number of calls made on a buffer after its construction.
MaxOps == 2

\* --------------------------------------------------------------- constants

SizeMod == 2 ^ SizeBits

DEFAULT_MINIMUM_LEN == 16

\* What the doubling loops yield when they never end.
Diverges == 0 - 1

Min(a, b) == IF a < b THEN a ELSE b

\* ------------------------------------------------------------------ memory

\* The values a fresh byte of the arena may hold.
FillBytes == {0, 170}

wmem_alloc(size, fill) == [i \in 1..size |-> fill]

\* wmem_realloc keeps the bytes that fit in the new size; new bytes are fresh.
wmem_realloc(mem, size, fill) ==
    [i \in 1..size |-> IF i <= Len(mem) THEN mem[i] ELSE fill]

\* The bytes written at C index `at`; those past the region's end are lost.
WriteBytes(mem, at, bytes) ==
    [i \in 1..Len(mem) |->
        IF i - 1 >= at /\ i - 1 < at + Len(bytes) THEN bytes[i - at] ELSE mem[i]]

OutOfBounds(mem, at, n) == n > 0 /\ at + n > Len(mem)

\* A write of `bytes` at &b.str[at].
Store(b, at, bytes) ==
    [b EXCEPT !.str = WriteBytes(b.str, at, bytes),
              !.oob = @ \/ OutOfBounds(b.str, at, Len(bytes))]

\* strlen of a C string held as bytes (an implicit terminator follows them).
strlen(bytes) ==
    IF \E i \in 1..Len(bytes) : bytes[i] = 0
    THEN (CHOOSE i \in 1..Len(bytes) :
              bytes[i] = 0 /\ \A j \in 1..(i - 1) : bytes[j] # 0) - 1
    ELSE Len(bytes)

\* What g_strlcpy(dest, src, dest_size) writes at dest.
g_strlcpy(src, dest_size) ==
    IF dest_size = 0 THEN <<>>
    ELSE SubSeq(src, 1, Min(strlen(src), dest_size - 1)) \o <<0>>

\* ------------------------------------------------------------- the buffer

\* A call of the arena allocator: fn is "alloc", "realloc" or "free", what is
\* "wrapper" (the wmem_strbuf_t) or "data" (its str), size the bytes asked for
\* (0 for the wrapper, whose size plays no part).  A read of the wrapper's fields
\* is recorded the same way, with fn "read", where the wrapper is freed.
AllocatorCall(fn, what, size) == [fn |-> fn, what |-> what, size |-> size]

\* The struct's fields, and what the current call has done so far.
NoEffects(b) ==
    [b EXCEPT !.oob = FALSE, !.aborted = FALSE, !.hung = FALSE,
              !.reallocs = 0, !.grows = <<>>, !.fmt_calls = 0, !.calls = <<>>]

\* str[len] lies in the region and holds the terminator.
Terminated(b) == b.len < Len(b.str) /\ b.str[b.len + 1] = 0

WMEM_STRBUF_ROOM(b) == (b.alloc_len - b.len - 1) % SizeMod

WMEM_STRBUF_RAW_ROOM(b) == (b.alloc_len - b.len) % SizeMod

\* while (a < need) a *= 2;  in gsize arithmetic.  Once a is 0 it stays 0.
RECURSIVE DoubleUntil(_, _)
DoubleUntil(a, need) ==
    IF a >= need THEN a
    ELSE IF a = 0 THEN Diverges
    ELSE DoubleUntil((a * 2) % SizeMod, need)

\* wmem_strbuf_sized_new without the default for an alloc_len of 0.
wmem_strbuf_sized_new_no_default(alloc_len, max_len, fill) ==
    LET n == alloc_len
        b == [str |-> wmem_alloc(n, fill), len |-> 0, alloc_len |-> n,
              max_len |-> max_len, oob |-> FALSE, aborted |-> FALSE,
              hung |-> FALSE, reallocs |-> 0, grows |-> <<>>, fmt_calls |-> 0,
              calls |-> <<AllocatorCall("alloc", "wrapper", 0),
                          AllocatorCall("alloc", "data", n)>>]
    IN  IF ~(max_len = 0 \/ alloc_len <= max_len)
        THEN [b EXCEPT !.aborted = TRUE, !.str = <<>>, !.alloc_len = 0,
                       !.calls = <<>>]
        ELSE Store(b, 0, <<0>>)

wmem_strbuf_sized_new(alloc_len, max_len, fill) ==
    LET n == IF alloc_len # 0 THEN alloc_len ELSE DEFAULT_MINIMUM_LEN
        b == [str |-> wmem_alloc(n, fill), len |-> 0, alloc_len |-> n,
              max_len |-> max_len, oob |-> FALSE, aborted |-> FALSE,
              hung |-> FALSE, reallocs |-> 0, grows |-> <<>>, fmt_calls |-> 0,
              calls |-> <<AllocatorCall("alloc", "wrapper", 0),
                          AllocatorCall("alloc", "data", n)>>]
    IN  IF ~(max_len = 0 \/ alloc_len <= max_len)
        THEN [b EXCEPT !.aborted = TRUE, !.str = <<>>, !.alloc_len = 0,
                       !.calls = <<>>]
        ELSE Store(b, 0, <<0>>)

\* wmem_strbuf_new with the loop bound missing the terminator's byte:
\* while (alloc_len < len).
wmem_strbuf_new_no_terminator(s, fill) ==
    LET len == IF s.null THEN 0 ELSE strlen(s.bytes)
        alloc_len == DoubleUntil(DEFAULT_MINIMUM_LEN, len)
        b == wmem_strbuf_sized_new(alloc_len, 0, fill)
    IN  IF alloc_len = Diverges
        THEN [wmem_strbuf_sized_new(0, 0, fill) EXCEPT !.hung = TRUE]
        ELSE IF ~s.null /\ len > 0
        THEN [Store(b, 0, g_strlcpy(s.bytes, alloc_len)) EXCEPT !.len = len]
        ELSE b

\* A C string argument: null, or a pointer to bytes.
wmem_strbuf_new(s, fill) ==
    LET len == IF s.null THEN 0 ELSE strlen(s.bytes)
        alloc_len == DoubleUntil(DEFAULT_MINIMUM_LEN, (len + 1) % SizeMod)
        b == wmem_strbuf_sized_new(alloc_len, 0, fill)
    IN  IF alloc_len = Diverges
        THEN [wmem_strbuf_sized_new(0, 0, fill) EXCEPT !.hung = TRUE]
        ELSE IF ~s.null /\ len > 0
        THEN [Store(b, 0, g_strlcpy(s.bytes, alloc_len)) EXCEPT !.len = len]
        ELSE b

\* wmem_strbuf_grow without the test that skips a reallocation to the same size.
wmem_strbuf_grow_always_reallocs(b, to_add, fill) ==
    LET new_len == (b.len + to_add) % SizeMod
        doubled == DoubleUntil(b.alloc_len, (new_len + 1) % SizeMod)
        new_alloc_len == IF b.max_len # 0 /\ doubled > b.max_len
                         THEN b.max_len ELSE doubled
        call(after) == [to_add |-> to_add, len |-> b.len,
                        before |-> b.alloc_len, after |-> after,
                        term |-> Terminated(b)]
    IN  IF WMEM_STRBUF_ROOM(b) >= to_add
        THEN [b EXCEPT !.grows = Append(@, call(b.alloc_len))]
        ELSE IF doubled = Diverges
        THEN [b EXCEPT !.hung = TRUE]
        ELSE [b EXCEPT !.str = wmem_realloc(b.str, new_alloc_len, fill),
                       !.alloc_len = new_alloc_len,
                       !.reallocs = @ + 1,
                       !.calls = Append(@, AllocatorCall("realloc", "data",
                                                         new_alloc_len)),
                       !.grows = Append(@, call(new_alloc_len))]

\* wmem_strbuf_grow with the loop bound missing the terminator's byte:
\* while (new_alloc_len < new_len).
wmem_strbuf_grow_no_terminator(b, to_add, fill) ==
    LET new_len == (b.len + to_add) % SizeMod
        doubled == DoubleUntil(b.alloc_len, new_len)
        new_alloc_len == IF b.max_len # 0 /\ doubled > b.max_len
                         THEN b.max_len ELSE doubled
        call(after) == [to_add |-> to_add, len |-> b.len,
                        before |-> b.alloc_len, after |-> after,
                        term |-> Terminated(b)]
    IN  IF WMEM_STRBUF_ROOM(b) >= to_add
        THEN [b EXCEPT !.grows = Append(@, call(b.alloc_len))]
        ELSE IF doubled = Diverges
        THEN [b EXCEPT !.hung = TRUE]
        ELSE IF new_alloc_len = b.alloc_len
        THEN [b EXCEPT !.grows = Append(@, call(b.alloc_len))]
        ELSE [b EXCEPT !.str = wmem_realloc(b.str, new_alloc_len, fill),
                       !.alloc_len = new_alloc_len,
                       !.reallocs = @ + 1,
                       !.calls = Append(@, AllocatorCall("realloc", "data",
                                                         new_alloc_len)),
                       !.grows = Append(@, call(new_alloc_len))]

wmem_strbuf_grow(b, to_add, fill) ==
    LET new_len == (b.len + to_add) % SizeMod
        doubled == DoubleUntil(b.alloc_len, (new_len + 1) % SizeMod)
        new_alloc_len == IF b.max_len # 0 /\ doubled > b.max_len
                         THEN b.max_len ELSE doubled
        call(after) == [to_add |-> to_add, len |-> b.len,
                        before |-> b.alloc_len, after |-> after,
                        term |-> Terminated(b)]
    IN  IF WMEM_STRBUF_ROOM(b) >= to_add
        THEN [b EXCEPT !.grows = Append(@, call(b.alloc_len))]
        ELSE IF doubled = Diverges
        THEN [b EXCEPT !.hung = TRUE]
        ELSE IF new_alloc_len = b.alloc_len
        THEN [b EXCEPT !.grows = Append(@, call(b.alloc_len))]
        ELSE [b EXCEPT !.str = wmem_realloc(b.str, new_alloc_len, fill),
                       !.alloc_len = new_alloc_len,
                       !.reallocs = @ + 1,
                       !.calls = Append(@, AllocatorCall("realloc", "data",
                                                         new_alloc_len)),
                       !.grows = Append(@, call(new_alloc_len))]

\* wmem_strbuf_append copying into a destination of append_len bytes, not
\* append_len + 1, when there is no ceiling.
wmem_strbuf_append_short_copy(b, s, fill) ==
    IF s.null \/ strlen(s.bytes) = 0 THEN b
    ELSE LET append_len == strlen(s.bytes)
             g == wmem_strbuf_grow(b, append_len, fill)
             size == IF g.max_len # 0 THEN WMEM_STRBUF_RAW_ROOM(g)
                     ELSE append_len % SizeMod
             w == Store(g, g.len, g_strlcpy(s.bytes, size))
         IN  IF g.hung THEN g
             ELSE [w EXCEPT !.len = Min((g.len + append_len) % SizeMod,
                                        (g.alloc_len - 1) % SizeMod)]

wmem_strbuf_append(b, s, fill) ==
    IF s.null \/ strlen(s.bytes) = 0 THEN b
    ELSE LET append_len == strlen(s.bytes)
             g == wmem_strbuf_grow(b, append_len, fill)
             size == IF g.max_len # 0 THEN WMEM_STRBUF_RAW_ROOM(g)
                     ELSE (append_len + 1) % SizeMod
             w == Store(g, g.len, g_strlcpy(s.bytes, size))
         IN  IF g.hung THEN g
             ELSE [w EXCEPT !.len = Min((g.len + append_len) % SizeMod,
                                        (g.alloc_len - 1) % SizeMod)]

\* s.bytes holds at least append_len bytes.
wmem_strbuf_append_len(b, s, append_len, fill) ==
    IF append_len = 0 \/ s.null \/ s.bytes[1] = 0 THEN b
    ELSE LET g == wmem_strbuf_grow(b, append_len, fill)
             n == IF g.max_len # 0 THEN Min(append_len, WMEM_STRBUF_ROOM(g))
                  ELSE append_len
             w == Store(g, g.len, SubSeq(s.bytes, 1, n))
             len == (g.len + n) % SizeMod
         IN  IF g.hung THEN g
             ELSE [Store(w, len, <<0>>) EXCEPT !.len = len]

\* The formatted-write primitive on a destination of buffer_size bytes.  A call's
\* format and arguments are held as what they render to: r.out, the bytes they
\* produce (up to the failing conversion when r.err), and r.term, whether a
\* failing call still terminates what it wrote.
vsnprintf(buffer_size, r) ==
    LET fit == SubSeq(r.out, 1, Min(Len(r.out), buffer_size - 1))
    IN  IF r.err
        THEN [ret |-> 0 - 1,
              written |-> IF buffer_size = 0 THEN <<>>
                          ELSE IF r.term THEN fit \o <<0>> ELSE fit]
        ELSE [ret |-> Len(r.out),
              written |-> IF buffer_size = 0 THEN <<>> ELSE fit \o <<0>>]

\* _strbuf_vsnprintf taking an output that exactly fills the room as truncated:
\* want_len < buffer_size - 1.
strbuf_vsnprintf_strict(b, r, reset) ==
    LET buffer_size == WMEM_STRBUF_RAW_ROOM(b)
        v == vsnprintf(buffer_size, r)
        w == [Store(b, b.len, v.written) EXCEPT !.fmt_calls = @ + 1]
        want_len == v.ret
        kept == (w.len + buffer_size - 1) % SizeMod
    IN  IF want_len < 0 THEN [b |-> w, ret |-> 0 - 1]
        ELSE IF want_len < buffer_size - 1
        THEN [b |-> [w EXCEPT !.len = (w.len + want_len) % SizeMod], ret |-> 0]
        ELSE IF reset
        THEN [b |-> Store(w, w.len, <<0>>), ret |-> want_len]
        ELSE [b |-> [w EXCEPT !.len = kept,
                              !.aborted = (kept # (w.alloc_len - 1) % SizeMod)],
              ret |-> want_len]

\* _strbuf_vsnprintf is the source's name; an identifier here starts with a letter.
strbuf_vsnprintf(b, r, reset) ==
    LET buffer_size == WMEM_STRBUF_RAW_ROOM(b)
        v == vsnprintf(buffer_size, r)
        w == [Store(b, b.len, v.written) EXCEPT !.fmt_calls = @ + 1]
        want_len == v.ret
        kept == (w.len + buffer_size - 1) % SizeMod
    IN  IF want_len < 0 THEN [b |-> w, ret |-> 0 - 1]
        ELSE IF want_len < buffer_size
        THEN [b |-> [w EXCEPT !.len = (w.len + want_len) % SizeMod], ret |-> 0]
        ELSE IF reset
        THEN [b |-> Store(w, w.len, <<0>>), ret |-> want_len]
        ELSE [b |-> [w EXCEPT !.len = kept,
                              !.aborted = (kept # (w.alloc_len - 1) % SizeMod)],
              ret |-> want_len]

\* wmem_strbuf_append_vprintf growing by one byte less than the probe asked for.
wmem_strbuf_append_vprintf_short_grow(b, r, fill) ==
    LET probe == strbuf_vsnprintf(b, r, TRUE)
        g == wmem_strbuf_grow(probe.b, probe.ret - 1, fill)
    IN  IF probe.ret <= 0 THEN probe.b
        ELSE IF g.hung THEN g
        ELSE strbuf_vsnprintf(g, r, FALSE).b

\* wmem_strbuf_append_vprintf whose probe keeps its truncated output:
\* _strbuf_vsnprintf(strbuf, fmt, ap2, FALSE).
wmem_strbuf_append_vprintf_keeps_probe(b, r, fill) ==
    LET probe == strbuf_vsnprintf(b, r, FALSE)
        g == wmem_strbuf_grow(probe.b, probe.ret, fill)
    IN  IF probe.ret <= 0 THEN probe.b
        ELSE IF g.hung THEN g
        ELSE strbuf_vsnprintf(g, r, FALSE).b

wmem_strbuf_append_vprintf(b, r, fill) ==
    LET probe == strbuf_vsnprintf(b, r, TRUE)
        g == wmem_strbuf_grow(probe.b, probe.ret, fill)
    IN  IF probe.ret <= 0 THEN probe.b
        ELSE IF g.hung THEN g
        ELSE strbuf_vsnprintf(g, r, FALSE).b

wmem_strbuf_append_c(b, c, fill) ==
    LET g == wmem_strbuf_grow(b, 1, fill)
        w == Store(g, g.len, <<c>>)
        len == (g.len + 1) % SizeMod
    IN  IF g.hung THEN g
        ELSE IF g.max_len = 0 \/ WMEM_STRBUF_ROOM(g) >= 1
        THEN [Store(w, len, <<0>>) EXCEPT !.len = len]
        ELSE g

\* c >> (6 * k)
Shr6(c, k) == c \div (64 ^ k)

\* g_unichar_to_utf8: the UTF-8 style encoding of c, 1 to 6 bytes.
g_unichar_to_utf8(c) ==
    LET n == IF c < 128 THEN 1
             ELSE IF c < 2048 THEN 2
             ELSE IF c < 65536 THEN 3
             ELSE IF c < 2097152 THEN 4
             ELSE IF c < 67108864 THEN 5
             ELSE 6
        first == IF n = 1 THEN 0
                 ELSE IF n = 2 THEN 192
                 ELSE IF n = 3 THEN 224
                 ELSE IF n = 4 THEN 240
                 ELSE IF n = 5 THEN 248
                 ELSE 252
    IN  [i \in 1..n |->
            IF i = 1 THEN Shr6(c, n - 1) + first
            ELSE (Shr6(c, n - i) % 64) + 128]

wmem_strbuf_append_unichar(b, c, fill) ==
    LET buf == g_unichar_to_utf8(c)
        charlen == Len(buf)
        g == wmem_strbuf_grow(b, charlen, fill)
        w == Store(g, g.len, buf)
        len == (g.len + charlen) % SizeMod
    IN  IF g.hung THEN g
        ELSE IF g.max_len = 0 \/ WMEM_STRBUF_ROOM(g) >= charlen
        THEN [Store(w, len, <<0>>) EXCEPT !.len = len]
        ELSE g

\* wmem_strbuf_truncate without the test that keeps it from lengthening.
wmem_strbuf_truncate_unguarded(b, len) ==
    [Store(b, len, <<0>>) EXCEPT !.len = len]

wmem_strbuf_truncate(b, len) ==
    IF len >= b.len THEN b
    ELSE [Store(b, len, <<0>>) EXCEPT !.len = len]

wmem_strbuf_get_str(b) == b.str

wmem_strbuf_get_len(b) == b.len

\* wmem_strbuf_finalize freeing the wrapper before it reallocates the data.
wmem_strbuf_finalize_frees_first(b, fill) ==
    LET size == (b.len + 1) % SizeMod
    IN  [ret |-> wmem_realloc(b.str, size, fill),
         calls |-> <<AllocatorCall("read", "wrapper", 0),
                     AllocatorCall("free", "wrapper", 0),
                     AllocatorCall("read", "wrapper", 0),
                     AllocatorCall("realloc", "data", size)>>]

\* The region handed back, and the calls made: the wrapper's fields are read for
\* the reallocation and for the free's argument, then the wrapper is freed.
wmem_strbuf_finalize(b, fill) ==
    LET size == (b.len + 1) % SizeMod
    IN  [ret |-> wmem_realloc(b.str, size, fill),
         calls |-> <<AllocatorCall("read", "wrapper", 0),
                     AllocatorCall("realloc", "data", size),
                     AllocatorCall("read", "wrapper", 0),
                     AllocatorCall("free", "wrapper", 0)>>]

\* ------------------------------------------------------------------ inputs

Ascii_hi == <<104, 105>>

Ascii_abc == <<97, 98, 99>>

Ascii_hello == <<104, 101, 108, 108, 111>>

\* "abcdefghij..." of n letters.
Letters(n) == [i \in 1..n |-> 96 + i]

\* " world, this is long"
Ascii_world == <<32, 119, 111, 114, 108, 100, 44, 32, 116, 104,
                 105, 115, 32, 105, 115, 32, 108, 111, 110, 103>>

\* "2024-report-with-a-long-name"
Ascii_report == <<50, 48, 50, 52, 45, 114, 101, 112, 111, 114, 116, 45, 119, 105,
                  116, 104, 45, 97, 45, 108, 111, 110, 103, 45, 110, 97, 109, 101>>

NullStr == [null |-> TRUE, bytes |-> <<>>]

CStr(bytes) == [null |-> FALSE, bytes |-> bytes]

\* (alloc_len, max_len) given to wmem_strbuf_sized_new.
SizedArgs == {<<0, 0>>, <<4, 0>>, <<8, 10>>, <<0, 8>>, <<4, 4>>, <<12, 8>>}

Seeds == {NullStr, CStr(<<>>), CStr(Ascii_hi), CStr(Ascii_abc), CStr(Ascii_hello),
          CStr(Letters(16))}

AppendStrs == {NullStr, CStr(<<>>), CStr(Ascii_hello), CStr(Letters(10)),
               CStr(Ascii_world)}

\* (str, append_len) given to wmem_strbuf_append_len.
AppendSpans == {<<NullStr, 3>>, <<CStr(Ascii_hello), 0>>, <<CStr(Ascii_hello), 2>>,
                <<CStr(Ascii_hello), 5>>, <<CStr(Letters(10)), 10>>,
                <<CStr(<<97, 0, 98>>), 3>>, <<CStr(<<0, 97>>), 2>>}

Chars == {120}

UniChars == {65, 8364, 67108864}

Render(out) == [out |-> out, err |-> FALSE, term |-> TRUE]

Failing(out, term) == [out |-> out, err |-> TRUE, term |-> term]

NoRender == Render(<<>>)

Renders == {Render(<<>>), Render(Ascii_abc), Render(Letters(12)), Render(Ascii_report),
            Failing(Ascii_hi, TRUE), Failing(Ascii_hi, FALSE), Failing(<<>>, TRUE)}

TruncateLens == {0, 3, 10}

\* ------------------------------------------------------------------- state

VARIABLES
    strbuf,     \* the wmem_strbuf_t, and what the last call on it did
    status,     \* "none", "live", "finalized", "aborted", "crashed", "hung"
    ret,        \* the region wmem_strbuf_finalize returned
    fillByte,   \* what fresh arena memory holds
    nops,       \* calls made since construction
    ub,         \* an out-of-bounds write has happened
    last,       \* the last call: its name, its arguments, the buffer before it
    twin        \* a second buffer, in the same state as strbuf before the last
                \* call, on which the other calls of a comparison were made

vars == <<strbuf, status, ret, fillByte, nops, ub, last, twin>>

NoBuf ==
    [str |-> <<>>, len |-> 0, alloc_len |-> 0, max_len |-> 0, oob |-> FALSE,
     aborted |-> FALSE, hung |-> FALSE, reallocs |-> 0, grows |-> <<>>,
     fmt_calls |-> 0, calls |-> <<>>]

CallRec(op, pre, s, n, m, r) ==
    [op |-> op, pre |-> pre, s |-> s, n |-> n, m |-> m, r |-> r]

Init ==
    /\ strbuf = NoBuf
    /\ status = "none"
    /\ ret = <<>>
    /\ fillByte \in FillBytes
    /\ nops = 0
    /\ ub = FALSE
    /\ last = CallRec("none", NoBuf, NullStr, 0, 0, NoRender)
    /\ twin = NoBuf

\* The call returns with the buffer as b, unless it aborted on an assertion, never
\* returned, or wrote out of bounds and the process crashed.
Returns(b, call, count) ==
    \E go_on \in (IF b.oob THEN BOOLEAN ELSE {TRUE}) :
        /\ strbuf' = b
        /\ status' = IF b.aborted THEN "aborted"
                     ELSE IF b.hung THEN "hung"
                     ELSE IF ~go_on THEN "crashed"
                     ELSE "live"
        /\ ub' = (ub \/ b.oob)
        /\ last' = call
        /\ nops' = nops + count
        /\ UNCHANGED <<ret, fillByte, twin>>

SizedNew ==
    /\ status = "none"
    /\ \E a \in SizedArgs :
          Returns(wmem_strbuf_sized_new(a[1], a[2], fillByte),
                  CallRec("sized_new", NoBuf, NullStr, a[1], a[2], NoRender), 0)

New ==
    /\ status = "none"
    /\ \E s \in Seeds :
          Returns(wmem_strbuf_new(s, fillByte),
                  CallRec("new", NoBuf, s, 0, 0, NoRender), 0)

CanCall == status = "live" /\ nops < MaxOps

Pre == NoEffects(strbuf)

AppendStr ==
    /\ CanCall
    /\ \E s \in AppendStrs :
          Returns(wmem_strbuf_append(Pre, s, fillByte),
                  CallRec("append", Pre, s, 0, 0, NoRender), 1)

AppendLen ==
    /\ CanCall
    /\ \E a \in AppendSpans :
          Returns(wmem_strbuf_append_len(Pre, a[1], a[2], fillByte),
                  CallRec("append_len", Pre, a[1], a[2], 0, NoRender), 1)

AppendPrintf ==
    /\ CanCall
    /\ \E r \in Renders :
          Returns(wmem_strbuf_append_vprintf(Pre, r, fillByte),
                  CallRec("append_vprintf", Pre, NullStr, 0, 0, r), 1)

AppendC ==
    /\ CanCall
    /\ \E c \in Chars :
          Returns(wmem_strbuf_append_c(Pre, c, fillByte),
                  CallRec("append_c", Pre, NullStr, c, 0, NoRender), 1)

AppendUnichar ==
    /\ CanCall
    /\ \E c \in UniChars :
          Returns(wmem_strbuf_append_unichar(Pre, c, fillByte),
                  CallRec("append_unichar", Pre, NullStr, c, 0, NoRender), 1)

Truncate ==
    /\ CanCall
    /\ \E n \in TruncateLens :
          Returns(wmem_strbuf_truncate(Pre, n),
                  CallRec("truncate", Pre, NullStr, n, 0, NoRender), 1)

\* The accessors read and change nothing.
GetStr ==
    /\ status = "live"
    /\ wmem_strbuf_get_str(strbuf) = strbuf.str
    /\ wmem_strbuf_get_len(strbuf) = strbuf.len
    /\ UNCHANGED vars

Finalize ==
    /\ status = "live"
    /\ ret' = wmem_strbuf_finalize(strbuf, fillByte).ret
    /\ status' = "finalized"
    /\ last' = CallRec("finalize", Pre, NullStr, 0, 0, NoRender)
    /\ strbuf' = [Pre EXCEPT !.reallocs = 1,
                             !.calls = wmem_strbuf_finalize(strbuf, fillByte).calls]
    /\ UNCHANGED <<fillByte, nops, ub, twin>>

Next ==
    \/ SizedNew
    \/ New
    \/ AppendStr
    \/ AppendLen
    \/ AppendPrintf
    \/ AppendC
    \/ AppendUnichar
    \/ Truncate
    \/ GetStr
    \/ Finalize

Spec == Init /\ [][Next]_vars

\* ------------------------------------------- buffers with a ceiling, longer

\* The same calls on buffers built with a ceiling, from fewer arguments and one
\* call deeper: a buffer with a ceiling takes two appends to get past it.
MaxOpsBounded == 3

BoundedArgs == {<<0, 8>>, <<8, 10>>, <<4, 4>>}

BoundedUniChars == {8364}

CanCallBounded == status = "live" /\ nops < MaxOpsBounded

BoundedSizedNew ==
    /\ status = "none"
    /\ \E a \in BoundedArgs :
          Returns(wmem_strbuf_sized_new(a[1], a[2], fillByte),
                  CallRec("sized_new", NoBuf, NullStr, a[1], a[2], NoRender), 0)

BoundedAppendStr ==
    /\ CanCallBounded
    /\ Returns(wmem_strbuf_append(Pre, CStr(Letters(10)), fillByte),
               CallRec("append", Pre, CStr(Letters(10)), 0, 0, NoRender), 1)

BoundedAppendLen ==
    /\ CanCallBounded
    /\ Returns(wmem_strbuf_append_len(Pre, CStr(Letters(10)), 10, fillByte),
               CallRec("append_len", Pre, CStr(Letters(10)), 10, 0, NoRender), 1)

BoundedAppendPrintf ==
    /\ CanCallBounded
    /\ Returns(wmem_strbuf_append_vprintf(Pre, Render(Letters(12)), fillByte),
               CallRec("append_vprintf", Pre, NullStr, 0, 0, Render(Letters(12))), 1)

BoundedAppendC ==
    /\ CanCallBounded
    /\ \E c \in Chars :
          Returns(wmem_strbuf_append_c(Pre, c, fillByte),
                  CallRec("append_c", Pre, NullStr, c, 0, NoRender), 1)

BoundedAppendUnichar ==
    /\ CanCallBounded
    /\ \E c \in BoundedUniChars :
          Returns(wmem_strbuf_append_unichar(Pre, c, fillByte),
                  CallRec("append_unichar", Pre, NullStr, c, 0, NoRender), 1)

BoundedTruncate ==
    /\ CanCallBounded
    /\ \E n \in TruncateLens :
          Returns(wmem_strbuf_truncate(Pre, n),
                  CallRec("truncate", Pre, NullStr, n, 0, NoRender), 1)

BoundedNext ==
    \/ BoundedSizedNew
    \/ BoundedAppendStr
    \/ BoundedAppendLen
    \/ BoundedAppendPrintf
    \/ BoundedAppendC
    \/ BoundedAppendUnichar
    \/ BoundedTruncate
    \/ GetStr
    \/ Finalize

SpecBounded == Init /\ [][BoundedNext]_vars

\* --------------------------------------------- two ways to the same text

\* Two buffers in the same state are given different calls, or one buffer a
\* sequence of two calls, and what they end as is kept side by side: strbuf for
\* the one, twin for the other.

\* Two calls one after the other: the second is made only if the first returned,
\* and an out-of-bounds write of either is one of the sequence.  b2 is what the
\* second call makes of NoEffects(b1).
Sequel(b1, b2) ==
    IF b1.aborted \/ b1.hung THEN b1
    ELSE [b2 EXCEPT !.oob = b1.oob \/ @]

\* wmem_strbuf_append_c for each byte of s in turn.
RECURSIVE AppendChars(_, _, _)
AppendChars(b, s, fill) ==
    IF s = <<>> \/ b.aborted \/ b.hung THEN b
    ELSE AppendChars(Sequel(b, wmem_strbuf_append_c(NoEffects(b), Head(s), fill)),
                     Tail(s), fill)

\* (s1, s2) appended one after the other.
TextPairs == {<<Ascii_hi, Ascii_abc>>, <<Ascii_hello, Ascii_world>>,
              <<Letters(10), Letters(10)>>}

\* Texts appended whole and byte by byte, or as a string and as a span.
Texts == {Ascii_hello, Letters(10), Ascii_world}

\* An append call of any of the five kinds, with its arguments.
AppendCall(op, s, n, r) == [op |-> op, s |-> s, n |-> n, r |-> r]

AppendCalls ==
    {AppendCall("append", CStr(Ascii_world), 0, NoRender),
     AppendCall("append_len", CStr(Ascii_hello), 5, NoRender),
     AppendCall("append_vprintf", NullStr, 0, Render(Letters(12))),
     AppendCall("append_vprintf", NullStr, 0, Failing(Ascii_hi, FALSE)),
     AppendCall("append_c", NullStr, 120, NoRender),
     AppendCall("append_unichar", NullStr, 8364, NoRender)}

Appended(b, a, fill) ==
    CASE a.op = "append" -> wmem_strbuf_append(b, a.s, fill)
      [] a.op = "append_len" -> wmem_strbuf_append_len(b, a.s, a.n, fill)
      [] a.op = "append_vprintf" -> wmem_strbuf_append_vprintf(b, a.r, fill)
      [] a.op = "append_c" -> wmem_strbuf_append_c(b, a.n, fill)
      [] a.op = "append_unichar" -> wmem_strbuf_append_unichar(b, a.n, fill)

\* Both sides have returned, with strbuf as b and twin as t, unless one of them
\* aborted, never returned, or wrote out of bounds and the process crashed.
Compares(b, t, call) ==
    \E go_on \in (IF b.oob \/ t.oob THEN BOOLEAN ELSE {TRUE}) :
        /\ strbuf' = b
        /\ twin' = t
        /\ status' = IF b.aborted \/ t.aborted THEN "aborted"
                     ELSE IF b.hung \/ t.hung THEN "hung"
                     ELSE IF ~go_on THEN "crashed"
                     ELSE "compared"
        /\ ub' = (ub \/ b.oob \/ t.oob)
        /\ last' = call
        /\ nops' = nops + 1
        /\ UNCHANGED <<ret, fillByte>>

\* append(s1) then append(s2) on the one, append(s1 s2) on the other.
AppendTwice ==
    /\ CanCall
    /\ \E p \in TextPairs :
          LET b1 == wmem_strbuf_append(Pre, CStr(p[1]), fillByte)
              b2 == wmem_strbuf_append(NoEffects(b1), CStr(p[2]), fillByte)
          IN  Compares(Sequel(b1, b2),
                       wmem_strbuf_append(Pre, CStr(p[1] \o p[2]), fillByte),
                       CallRec("append_twice", Pre, CStr(p[1] \o p[2]), Len(p[1]), 0,
                               NoRender))

\* append_c for each byte of s on the one, append(s) on the other.
AppendCharByChar ==
    /\ CanCall
    /\ \E s \in Texts :
          Compares(AppendChars(Pre, s, fillByte),
                   wmem_strbuf_append(Pre, CStr(s), fillByte),
                   CallRec("append_chars", Pre, CStr(s), 0, 0, NoRender))

\* append(s) on the one, append_len(s, strlen(s)) on the other.
AppendBothWays ==
    /\ CanCall
    /\ \E s \in Texts :
          Compares(wmem_strbuf_append(Pre, CStr(s), fillByte),
                   wmem_strbuf_append_len(Pre, CStr(s), strlen(s), fillByte),
                   CallRec("append_both", Pre, CStr(s), strlen(s), 0, NoRender))

\* An append call, then truncate to the length the buffer had before it; the
\* twin is left as the buffer was.
AppendThenTruncate ==
    /\ CanCall
    /\ \E a \in AppendCalls :
          LET b1 == Appended(Pre, a, fillByte)
              b2 == wmem_strbuf_truncate(NoEffects(b1), wmem_strbuf_get_len(Pre))
          IN  Compares(Sequel(b1, b2), Pre,
                       CallRec("append_truncate", Pre, a.s, a.n, 0, a.r))

PairNext ==
    \/ SizedNew
    \/ New
    \/ AppendStr
    \/ AppendTwice
    \/ AppendCharByChar
    \/ AppendBothWays
    \/ AppendThenTruncate

SpecPairs == Init /\ [][PairNext]_vars

\* ------------------------------------------- requests near the size limit

\* Half of what a gsize can hold, plus one: the largest power of two it holds.
HalfSize == 2 ^ (SizeBits - 1)

\* n bytes of text.
Filler(n) == [i \in 1..n |-> 97]

\* Lengths around HalfSize and just under SizeMod.
LargeLens == {HalfSize - 40, HalfSize - 1, HalfSize, SizeMod - 3}

LargeSeeds == {NullStr, CStr(Ascii_hello), CStr(Filler(HalfSize - 40)),
               CStr(Filler(HalfSize - 1)), CStr(Filler(HalfSize + 2))}

\* (alloc_len, max_len): a capacity that is no power of two, and a ceiling over
\* HalfSize.
LargeArgs == {<<12, 0>>, <<8, SizeMod - 56>>}

LargeSizedNew ==
    /\ status = "none"
    /\ \E a \in LargeArgs :
          Returns(wmem_strbuf_sized_new(a[1], a[2], fillByte),
                  CallRec("sized_new", NoBuf, NullStr, a[1], a[2], NoRender), 0)

LargeNew ==
    /\ status = "none"
    /\ \E s \in LargeSeeds :
          Returns(wmem_strbuf_new(s, fillByte),
                  CallRec("new", NoBuf, s, 0, 0, NoRender), 0)

LargeAppendStr ==
    /\ CanCall
    /\ \E n \in LargeLens :
          Returns(wmem_strbuf_append(Pre, CStr(Filler(n)), fillByte),
                  CallRec("append", Pre, CStr(Filler(n)), 0, 0, NoRender), 1)

LargeAppendLen ==
    /\ CanCall
    /\ \E n \in LargeLens :
          Returns(wmem_strbuf_append_len(Pre, CStr(Filler(n)), n, fillByte),
                  CallRec("append_len", Pre, CStr(Filler(n)), n, 0, NoRender), 1)

LargeNext ==
    \/ LargeSizedNew
    \/ LargeNew
    \/ LargeAppendStr
    \/ LargeAppendLen
    \/ AppendC
    \/ Truncate

SpecLarge == Init /\ [][LargeNext]_vars

\* ------------------------------------------------------------------ claims

\* The last call was `op` and it returned.
Returned(op) == status = "live" /\ last.op = op

\* The bytes at C indices [0, len) of a buffer.
Text(b) == SubSeq(b.str, 1, b.len)

\* The byte at C index i of a buffer.
ByteAt(b, i) == b.str[i + 1]

\* The smallest previous * 2^k (k >= 0) that is >= need, then the ceiling.
Doublings(previous) == {previous * (2 ^ k) : k \in 0..SizeBits}

SmallestDoubling(previous, need) ==
    CHOOSE c \in Doublings(previous) :
        c >= need /\ \A d \in Doublings(previous) : d >= need => c <= d

Clamped(c, max_len) == IF max_len # 0 /\ c > max_len THEN max_len ELSE c

\* C1: after construction and after each append or truncate call,
\* capacity >= length + 1.
C1_CapacityCoversLength ==
    status = "live" => strbuf.alloc_len >= strbuf.len + 1

\* C2: with a ceiling set, capacity <= max_capacity after construction and after
\* every call.
C2_CapacityUnderCeiling ==
    (status = "live" /\ strbuf.max_len # 0) => strbuf.alloc_len <= strbuf.max_len

\* C3: after construction and after every mutating call, index length lies inside
\* the allocated region and the byte there is the terminator.
C3_Terminated ==
    status = "live" =>
        /\ strbuf.len < Len(strbuf.str)
        /\ ByteAt(strbuf, strbuf.len) = 0

\* C4: an append_formatted call whose formatting primitive reports an encoding
\* error leaves length, capacity and the bytes data[0..length] as they were.
C4_EncodingErrorChangesNothing ==
    (Returned("append_vprintf") /\ last.r.err) =>
        /\ strbuf.len = last.pre.len
        /\ strbuf.alloc_len = last.pre.alloc_len
        /\ Len(strbuf.str) = Len(last.pre.str)
        /\ \A i \in 0..last.pre.len :
              i < Len(last.pre.str) => ByteAt(strbuf, i) = ByteAt(last.pre, i)

\* C5: append_bytes(buf, n) with n > 0 on a buffer without a ceiling copies all n
\* bytes to the tail, advances length by n and terminates at the new length,
\* whatever the bytes are.
C5_AppendLenCopiesAll ==
    (Returned("append_len") /\ last.pre.max_len = 0 /\ ~last.s.null /\ last.n > 0) =>
        /\ strbuf.len = last.pre.len + last.n
        /\ strbuf.len < Len(strbuf.str)
        /\ Text(strbuf) = Text(last.pre) \o SubSeq(last.s.bytes, 1, last.n)
        /\ ByteAt(strbuf, strbuf.len) = 0

\* C6: each ensure_room(extra) call leaves the capacity alone when capacity -
\* length - 1 >= extra, and otherwise makes it the smallest previous * 2^k that is
\* >= length + extra + 1, replaced by the ceiling when it exceeds one.
C6_GrowthDeterminism ==
    (status = "live") =>
        \A i \in 1..Len(strbuf.grows) :
            LET c == strbuf.grows[i]
            IN  IF c.before - c.len - 1 >= c.to_add
                THEN c.after = c.before
                ELSE c.after = Clamped(SmallestDoubling(c.before, c.len + c.to_add + 1),
                                       strbuf.max_len)

\* C6 witness: a growth on a buffer without a ceiling that had to double twice.
C6_Witness ==
    /\ status = "live"
    /\ strbuf.max_len = 0
    /\ \E i \in 1..Len(strbuf.grows) :
          LET c == strbuf.grows[i]
          IN  /\ c.before - c.len - 1 < c.to_add
              /\ c.len > 0
              /\ c.after = 4 * c.before

NulFree(bytes) == \A i \in 1..Len(bytes) : bytes[i] # 0

\* C7: append_text(s) of a non-empty null-free s on a buffer without a ceiling
\* gives length = old length + len(s) and text = old text followed by s.
C7_AppendConcatenates ==
    (Returned("append") /\ last.pre.max_len = 0 /\ ~last.s.null
        /\ last.s.bytes # <<>> /\ NulFree(last.s.bytes)) =>
        /\ strbuf.len = last.pre.len + Len(last.s.bytes)
        /\ strbuf.len < Len(strbuf.str)
        /\ Text(strbuf) = Text(last.pre) \o last.s.bytes

\* C7 witness: an append that had to grow the buffer of a non-empty text.
C7_Witness ==
    /\ Returned("append") /\ last.pre.max_len = 0 /\ ~last.s.null
    /\ last.s.bytes # <<>> /\ NulFree(last.s.bytes)
    /\ last.pre.len > 0
    /\ strbuf.reallocs = 1
    /\ strbuf.len = last.pre.len + Len(last.s.bytes)

\* The length of what an append_text or append_bytes call was given.
GivenLen == IF last.op = "append" THEN strlen(last.s.bytes) ELSE last.n

\* C8: append_text and append_bytes on a buffer with a ceiling, when old length +
\* len(s) exceeds max_capacity - 1, end with capacity = max_capacity, length =
\* max_capacity - 1 and the text the old text followed by the bytes of s that fit.
C8_CeilingTruncates ==
    ((Returned("append") \/ Returned("append_len")) /\ last.pre.max_len # 0
        /\ ~last.s.null /\ last.pre.len + GivenLen > last.pre.max_len - 1) =>
        /\ strbuf.alloc_len = strbuf.max_len
        /\ strbuf.len = strbuf.max_len - 1
        /\ strbuf.len < Len(strbuf.str)
        /\ last.pre.len <= strbuf.len
        /\ Text(strbuf) = SubSeq(last.pre.str, 1, last.pre.len)
                            \o SubSeq(last.s.bytes, 1, strbuf.len - last.pre.len)

\* C9: append_formatted whose rendered length r is < capacity - length commits in
\* the probe: no reallocation, the capacity unchanged, length advanced by r, the
\* text the old text followed by the whole rendering.
C9_FittingFormatCommitsInProbe ==
    (Returned("append_vprintf") /\ ~last.r.err
        /\ Len(last.r.out) < last.pre.alloc_len - last.pre.len) =>
        /\ strbuf.reallocs = 0
        /\ strbuf.fmt_calls = 1
        /\ strbuf.alloc_len = last.pre.alloc_len
        /\ Len(strbuf.str) = Len(last.pre.str)
        /\ strbuf.len = last.pre.len + Len(last.r.out)
        /\ Text(strbuf) = Text(last.pre) \o last.r.out

\* C9 witness: a rendering that exactly fills the free room of a non-empty buffer.
C9_Witness ==
    /\ Returned("append_vprintf") /\ ~last.r.err
    /\ Len(last.r.out) > 0
    /\ last.pre.len > 0
    /\ Len(last.r.out) = last.pre.alloc_len - last.pre.len - 1
    /\ strbuf.len = strbuf.alloc_len - 1

\* C10: append_formatted on a buffer without a ceiling whose rendered length r
\* exceeds the free room ends with length = old length + r and text = old text
\* followed by the whole rendering, the probe's output discarded and the write
\* retried once.
C10_UnboundedFormatIsComplete ==
    (Returned("append_vprintf") /\ ~last.r.err /\ last.pre.max_len = 0
        /\ Len(last.r.out) > last.pre.alloc_len - last.pre.len - 1) =>
        /\ strbuf.fmt_calls = 2
        /\ strbuf.len = last.pre.len + Len(last.r.out)
        /\ strbuf.len < Len(strbuf.str)
        /\ Text(strbuf) = Text(last.pre) \o last.r.out
        /\ ByteAt(strbuf, strbuf.len) = 0

\* C10 witness: seed "hi" and a 28-byte rendering give length 30 and capacity 32.
C10_Witness ==
    /\ Returned("append_vprintf")
    /\ last.pre.max_len = 0
    /\ Text(last.pre) = Ascii_hi
    /\ last.r = Render(Ascii_report)
    /\ strbuf.len = 30
    /\ strbuf.alloc_len = 32
    /\ Text(strbuf) = Ascii_hi \o Ascii_report

\* An append_formatted call that rendered (no encoding error) more than the free
\* room it found.
FormatExceedsRoom ==
    /\ Returned("append_vprintf")
    /\ ~last.r.err
    /\ Len(last.r.out) > last.pre.alloc_len - last.pre.len - 1

\* C11 as claimed: every append_formatted call whose rendered output exceeds the
\* free room reallocates data exactly once, with or without a ceiling.
C11_ExactlyOneGrowth ==
    FormatExceedsRoom => strbuf.reallocs = 1

\* C11 as amended: such a call reallocates data exactly once when the capacity is
\* not already max_capacity, and not at all when it is.
C11_OneGrowthUnlessAtCeiling ==
    FormatExceedsRoom =>
        strbuf.reallocs = (IF last.pre.alloc_len = last.pre.max_len THEN 0 ELSE 1)

\* C11 witness: a rendering too long for a buffer already at its ceiling is cut
\* with no reallocation.
C11_Witness ==
    /\ FormatExceedsRoom
    /\ last.pre.alloc_len = last.pre.max_len
    /\ last.pre.len < last.pre.alloc_len - 1
    /\ strbuf.fmt_calls = 2
    /\ strbuf.reallocs = 0
    /\ strbuf.len = strbuf.alloc_len - 1

\* C12: append_formatted on a buffer with a ceiling, when the rendering does not
\* fit after growth, ends with length = capacity - 1, the text the old text
\* followed by the bytes of the rendering that fit, and the terminator in place.
C12_RetryKeepsWhatFits ==
    (Returned("append_vprintf") /\ ~last.r.err /\ last.pre.max_len # 0
        /\ Len(last.r.out) > strbuf.alloc_len - last.pre.len - 1) =>
        /\ strbuf.len = strbuf.alloc_len - 1
        /\ strbuf.len < Len(strbuf.str)
        /\ last.pre.len <= strbuf.len
        /\ Text(strbuf) = SubSeq(last.pre.str, 1, last.pre.len)
                            \o SubSeq(last.r.out, 1, strbuf.len - last.pre.len)
        /\ ByteAt(strbuf, strbuf.len) = 0

\* The last call was one of the no-op cases.
NoOpCase ==
    \/ (last.op = "append" /\ (last.s.null \/ last.s.bytes = <<>>))
    \/ (last.op = "append_len" /\ last.n = 0)
    \/ (last.op = "truncate" /\ last.n >= last.pre.len)

\* C13: append_text of an empty or absent string, append_bytes with n = 0 and
\* truncate(n) with n >= length return with length, capacity and contents as they
\* were, and call the allocator not at all.
C13_NoOps ==
    NoOpCase =>
        /\ status = "live"
        /\ strbuf.len = last.pre.len
        /\ strbuf.alloc_len = last.pre.alloc_len
        /\ strbuf.str = last.pre.str
        /\ strbuf.calls = <<>>
        /\ strbuf.reallocs = 0

\* C13 witness: truncate(10) on a text of 3 to 9 bytes.
C13_Witness ==
    /\ Returned("truncate")
    /\ last.n = 10
    /\ last.pre.len > 2
    /\ last.pre.len < 10
    /\ strbuf.len = last.pre.len

C15_FinalizeTight ==
    status = "finalized" =>
        /\ Len(ret) = last.pre.len + 1
        /\ \A i \in 1..(last.pre.len + 1) :
              i <= Len(last.pre.str) /\ ret[i] = last.pre.str[i]

SeedCapacities == {16 * (2 ^ k) : k \in 0..SizeBits}

\* C17: new_from_seed returns a buffer without a ceiling whose capacity is the
\* smallest 16 * 2^k strictly greater than len(seed), whose length is len(seed)
\* (0 for an absent seed) and whose text is the seed.
C17_NewFromSeed ==
    (last.op = "new" /\ NulFree(last.s.bytes)) =>
        /\ status = "live"
        /\ strbuf.max_len = 0
        /\ strbuf.alloc_len \in SeedCapacities
        /\ strbuf.alloc_len > Len(last.s.bytes)
        /\ \A c \in SeedCapacities : c > Len(last.s.bytes) => strbuf.alloc_len <= c
        /\ Len(strbuf.str) = strbuf.alloc_len
        /\ strbuf.len = Len(last.s.bytes)
        /\ Text(strbuf) = last.s.bytes
        /\ ByteAt(strbuf, strbuf.len) = 0

\* C17 witness: a seed of 16 bytes gives a capacity of 32.
C17_Witness ==
    /\ last.op = "new"
    /\ status = "live"
    /\ Len(last.s.bytes) = 16
    /\ strbuf.alloc_len = 32
    /\ strbuf.len = 16

\* The last call appended `bytes` whole and terminated them.
AppendedWhole(bytes) ==
    /\ strbuf.len = last.pre.len + Len(bytes)
    /\ strbuf.len < Len(strbuf.str)
    /\ last.pre.len <= Len(last.pre.str)
    /\ Text(strbuf) = Text(last.pre) \o bytes
    /\ ByteAt(strbuf, strbuf.len) = 0

\* The last call left length and the bytes [0, length] as they were.
LeftAlone ==
    /\ strbuf.len = last.pre.len
    /\ \A i \in 1..(last.pre.len + 1) :
          i <= Len(strbuf.str) /\ i <= Len(last.pre.str)
              /\ strbuf.str[i] = last.pre.str[i]

\* C18: append_char(c) without a ceiling writes c at the old length, advances
\* length by 1 and terminates; with a ceiling it does so only if the free room
\* after growth is >= 1 and otherwise leaves length, capacity and contents alone.
C18_AppendChar ==
    Returned("append_c") =>
        IF last.pre.max_len = 0 \/ strbuf.alloc_len - last.pre.len - 1 >= 1
        THEN AppendedWhole(<<last.n>>)
        ELSE LeftAlone /\ strbuf.alloc_len = last.pre.alloc_len

\* C19: append_unicode_scalar(c) under a ceiling, with encoded length e: either
\* the free room after growth is >= e and the whole sequence is appended, or
\* nothing is written and length and contents are as they were.
C19_UnicharAllOrNothing ==
    (Returned("append_unichar") /\ last.pre.max_len # 0) =>
        IF strbuf.alloc_len - last.pre.len - 1 >= Len(g_unichar_to_utf8(last.n))
        THEN AppendedWhole(g_unichar_to_utf8(last.n))
        ELSE LeftAlone

IsAllocatorCall(c) == c.fn # "read"

\* C20: no call but finalize frees anything; finalize reallocates data to
\* length + 1, then frees the wrapper, and makes no other allocator call; it reads
\* the wrapper only before freeing it, and never frees the data.
C20_AllocatorDiscipline ==
    /\ last.op # "finalize" =>
          \A i \in 1..Len(strbuf.calls) : strbuf.calls[i].fn # "free"
    /\ status = "finalized" =>
          /\ last.op = "finalize"
          /\ SelectSeq(strbuf.calls, IsAllocatorCall)
                = <<AllocatorCall("realloc", "data", last.pre.len + 1),
                    AllocatorCall("free", "wrapper", 0)>>
          /\ \A i, j \in 1..Len(strbuf.calls) :
                (strbuf.calls[i].fn = "free" /\ strbuf.calls[j].fn = "read") => j < i

\* C20 witness: a buffer that grew has been finalized.
C20_Witness ==
    /\ status = "finalized"
    /\ last.pre.len > 0
    /\ last.pre.alloc_len > DEFAULT_MINIMUM_LEN
    /\ Len(ret) = last.pre.len + 1

\* Scenario 2: the buffer of scenario 1 (no seed, then "hello": length 5 in a
\* capacity of 16, no ceiling) has been given " world, this is long".
Scenario2 ==
    /\ Returned("append")
    /\ last.s = CStr(Ascii_world)
    /\ last.pre.max_len = 0
    /\ last.pre.alloc_len = DEFAULT_MINIMUM_LEN
    /\ Text(last.pre) = Ascii_hello

\* C21 as claimed: scenario 2 ends with a length of 26, the capacity grown from 16
\* to 32 to hold 27 bytes, and the text the two strings one after the other.
C21_Scenario2Length26 ==
    Scenario2 =>
        /\ strbuf.len = 26
        /\ strbuf.alloc_len = 32
        /\ Text(strbuf) = Ascii_hello \o Ascii_world

\* C21 as amended: scenario 2 ends with a length of 25, the capacity grown from 16
\* to 32 by one reallocation to hold 26 bytes, and the text the two strings one
\* after the other.
C21_Scenario2Length25 ==
    Scenario2 =>
        /\ strbuf.len = 25
        /\ strbuf.alloc_len = 32
        /\ Len(strbuf.str) = 32
        /\ strbuf.reallocs = 1
        /\ Text(strbuf) = Ascii_hello \o Ascii_world
        /\ ByteAt(strbuf, 25) = 0

\* C21 witness: scenario 2 has run, from a buffer built without a seed.
C21_Witness ==
    /\ Scenario2
    /\ nops = 2
    /\ strbuf.len = Len(Ascii_hello) + Len(Ascii_world)
    /\ strbuf.alloc_len = 2 * last.pre.alloc_len

\* The probe of the last append_formatted call was cut short: it rendered, and to
\* at least as many bytes as capacity - length.
ProbeTruncated ==
    /\ ~last.r.err
    /\ Len(last.r.out) > 0
    /\ Len(last.r.out) >= (last.pre.alloc_len - last.pre.len) % SizeMod

\* C22: an append_formatted call invokes the formatting primitive once or twice;
\* twice only when the first invocation was cut short, and then ensure_room has been
\* called exactly once in between, for the rendered length, at a moment when length
\* was its value before the call and data[length] was the terminator again; a
\* probe that fits or fails is followed by no growth and no retry.
C22_TwoPhaseOrdering ==
    last.op = "append_vprintf" =>
        /\ strbuf.fmt_calls \in {1, 2}
        /\ strbuf.fmt_calls = 2 <=> ProbeTruncated
        /\ ProbeTruncated =>
              /\ Len(strbuf.grows) = 1
              /\ strbuf.grows[1].to_add = Len(last.r.out)
              /\ strbuf.grows[1].len = last.pre.len
              /\ strbuf.grows[1].term
        /\ ~ProbeTruncated =>
              /\ strbuf.grows = <<>>
              /\ strbuf.reallocs = 0
              /\ strbuf.alloc_len = last.pre.alloc_len

\* C22 witness: a probe on a non-empty text was cut short, the buffer grew and the
\* retry wrote the whole rendering.
C22_Witness ==
    /\ Returned("append_vprintf")
    /\ ProbeTruncated
    /\ last.pre.len > 0
    /\ strbuf.fmt_calls = 2
    /\ strbuf.reallocs = 1
    /\ strbuf.len = last.pre.len + Len(last.r.out)

\* The last call was one of the five append operations.
IsAppend ==
    last.op \in {"append", "append_len", "append_vprintf", "append_c",
                 "append_unichar"}

\* The most bytes the last append call could add: what it asks ensure_room for.
UpperBound ==
    CASE last.op = "append" -> (IF last.s.null THEN 0 ELSE strlen(last.s.bytes))
      [] last.op = "append_len" -> last.n
      [] last.op = "append_vprintf" -> Len(last.r.out)
      [] last.op = "append_c" -> 1
      [] last.op = "append_unichar" -> Len(g_unichar_to_utf8(last.n))
      [] OTHER -> 0

\* C23: an append whose upper bound is <= capacity - length - 1 makes no
\* reallocate call and leaves the capacity alone; ensure_room makes no reallocate
\* call when the grown and clamped capacity is the current one; every append makes
\* at most one reallocate call, and truncate none (get_text and get_length only
\* read: GetStr leaves every variable as it is).
C23_ReallocationCount ==
    /\ (IsAppend /\ UpperBound <= last.pre.alloc_len - last.pre.len - 1) =>
          /\ strbuf.reallocs = 0
          /\ strbuf.calls = <<>>
          /\ strbuf.alloc_len = last.pre.alloc_len
          /\ Len(strbuf.str) = Len(last.pre.str)
    /\ IsAppend =>
          /\ strbuf.reallocs <= 1
          /\ Len(strbuf.calls) = strbuf.reallocs
          /\ Len(strbuf.grows) <= 1
          /\ \A i \in 1..Len(strbuf.grows) :
                LET c == strbuf.grows[i]
                IN  (c.before - c.len - 1 < c.to_add
                        /\ Clamped(SmallestDoubling(c.before, c.len + c.to_add + 1),
                                   strbuf.max_len) = c.before) =>
                        /\ strbuf.reallocs = 0
                        /\ strbuf.alloc_len = c.before
    /\ last.op = "truncate" =>
          /\ strbuf.reallocs = 0
          /\ strbuf.calls = <<>>
          /\ strbuf.alloc_len = last.pre.alloc_len

\* C23 witness: ensure_room, asked for more than the free room of a buffer at its
\* ceiling, has made no reallocate call.
C23_Witness ==
    /\ status = "live"
    /\ IsAppend
    /\ last.pre.max_len # 0
    /\ last.pre.alloc_len = last.pre.max_len
    /\ Len(strbuf.grows) = 1
    /\ strbuf.grows[1].before - strbuf.grows[1].len - 1 < strbuf.grows[1].to_add
    /\ strbuf.grows[1].after = strbuf.grows[1].before
    /\ strbuf.reallocs = 0

\* C24: no append and no truncate call leaves the capacity smaller than it found
\* it, on any buffer a constructor call that passed its precondition has built.
C24_CapacityNeverShrinks ==
    (IsAppend \/ last.op = "truncate") =>
        /\ strbuf.alloc_len >= last.pre.alloc_len
        /\ Len(strbuf.str) >= Len(last.pre.str)

\* The buffer the last call found had a ceiling and was full under it.
WasSaturated ==
    /\ last.pre.max_len # 0
    /\ last.pre.alloc_len = last.pre.max_len
    /\ last.pre.len = last.pre.max_len - 1

\* C25: every append call on a buffer with capacity = max_capacity and length =
\* max_capacity - 1 returns with length, capacity and the bytes data[0..length]
\* as they were, and reallocates nothing.
C25_SaturationAbsorbs ==
    (IsAppend /\ WasSaturated) =>
        /\ status = "live"
        /\ LeftAlone
        /\ strbuf.alloc_len = last.pre.alloc_len
        /\ Len(strbuf.str) = Len(last.pre.str)
        /\ strbuf.reallocs = 0
        /\ strbuf.calls = <<>>
        /\ ~strbuf.oob

\* C26: every append call, whatever its outcome, leaves the bytes at [0, old
\* length) as they were and does not decrease length.
C26_PrefixPreserved ==
    (IsAppend /\ status = "live") =>
        /\ strbuf.len >= last.pre.len
        /\ \A i \in 1..last.pre.len :
              /\ i <= Len(strbuf.str)
              /\ i <= Len(last.pre.str)
              /\ strbuf.str[i] = last.pre.str[i]

\* C27: append_text(s1) then append_text(s2) ends with the length, the capacity
\* and the text that the single call append_text(s1 s2) ends with, and so does
\* appending the bytes of s one at a time with append_char against append_text(s).
C27_AppendComposes ==
    last.op \in {"append_twice", "append_chars"} =>
        /\ status = "compared"
        /\ strbuf.len = twin.len
        /\ strbuf.alloc_len = twin.alloc_len
        /\ strbuf.len <= Len(strbuf.str)
        /\ twin.len <= Len(twin.str)
        /\ Text(strbuf) = Text(twin)

\* C28: append_text(s) and append_bytes(s, len(s)) of a non-empty null-free s end
\* with the same length, capacity and data contents.
C28_AppendEqualsAppendLen ==
    last.op = "append_both" =>
        /\ status = "compared"
        /\ strbuf.len = twin.len
        /\ strbuf.alloc_len = twin.alloc_len
        /\ strbuf.str = twin.str

\* C29: an append call followed by truncate(L), L the length before the append,
\* ends with length L, the bytes data[0..L] as they were with data[L] = 0, and a
\* capacity that is the old one or larger.
C29_AppendTruncateRoundTrip ==
    last.op = "append_truncate" =>
        /\ status = "compared"
        /\ strbuf.len = last.pre.len
        /\ \A i \in 1..(last.pre.len + 1) :
              /\ i <= Len(strbuf.str)
              /\ i <= Len(last.pre.str)
              /\ strbuf.str[i] = last.pre.str[i]
        /\ ByteAt(strbuf, last.pre.len) = 0
        /\ strbuf.alloc_len >= last.pre.alloc_len

\* C30: the doubling loops of ensure_room and new_from_seed end for every
\* capacity >= 1 and every request a gsize can hold, and the capacity they
\* compute is never smaller than the current one.
C30_DoublingTerminates ==
    /\ status # "hung"
    /\ \A i \in 1..Len(strbuf.grows) :
          strbuf.grows[i].after >= strbuf.grows[i].before

====
